---- MODULE Spec2Model ----
(***************************************************************************)
(* Model of MDP_Project/Web_Crawler.py: build_mdp, value_iteration and     *)
(* policy_iteration.                                                       *)
(*                                                                         *)
(* Numbers.  Python floats are modelled in fixed point:                    *)
(*   - a value or reward x is the integer x * ValueUnit (hundredths);      *)
(*   - a probability or the discount p is the integer p * ProbUnit;        *)
(*   - theta is the integer theta * ValueUnit * ThetaUnit (millionths).    *)
(* One backup  sum prob * (reward + gamma * V)  is computed exactly and    *)
(* rounded once to the nearest hundredth.                                  *)
(*                                                                         *)
(* Containers.  A dict is a function whose DOMAIN is its key set; a set    *)
(* that the code iterates (pages, links[s]) is the sequence of its         *)
(* elements in iteration order, which Python fixes per object but does not *)
(* specify.  None (as an action) is 0; terminal_reward[s] is << >> for     *)
(* None and <<r>> for the float r.                                         *)
(*                                                                         *)
(* Inputs.  Init draws what crawl_mdp can return for a corpus of three     *)
(* pages with at most MaxLinks links (self links included), every          *)
(* iteration order of pages and of each links[s], and the parameters the   *)
(* solvers are called with.  A driver then builds the model and calls the  *)
(* engines, at most MaxCalls times, recording what each call returns.      *)
(***************************************************************************)
EXTENDS Integers, Sequences, FiniteSets, TLC

Pages == {1, 2, 3}

None == 0

ValueUnit == 100

ProbUnit == 100

ThetaUnit == 10000

NegInf == -1000000000

GAMMA == 97

THRESHOLD == 1

ACTION_PENALTY == -5

\* Bounds of the explored inputs and of the driver.
MaxLinks == 2

MaxCalls == 2

\* Terminal rewards found in the corpus (10.0, as <meta name="reward">).
RewardValues == {10 * ValueUnit}

\* Discounts and thresholds the solvers are called with.
GammaValues == {GAMMA}

ThetaValues == {0, THRESHOLD, 10 * ThetaUnit}

VARIABLES
    order,            \* pages, in iteration order
    links,            \* links[s], in iteration order
    terminal_reward,
    P, R, actions,    \* the model build_mdp returns
    gamma, theta,     \* the solver's parameters
    pc,               \* position of the driver / the running solver
    V, policy, delta, policy_stable,
    i,                \* index in order of the state the running loop visits next
    Vsweep,           \* history: V when the current sweep began
    old_policy,       \* history: policy when the current improvement pass began
    results           \* what the calls so far returned

vars == <<order, links, terminal_reward, P, R, actions, gamma, theta, pc, V,
          policy, delta, policy_stable, i, Vsweep, old_policy, results>>

inputs == <<order, links, terminal_reward, gamma, theta>>

model == <<P, R, actions>>

----------------------------------------------------------------------------
\* Helpers

Abs(x) == IF x < 0 THEN -x ELSE x

Max(x, y) == IF x > y THEN x ELSE y

Round(x, d) == (2 * x + d) \div (2 * d)

Range(q) == {q[k] : k \in DOMAIN q}

InjSeqs(S) ==
    {q \in UNION {[1..n -> S] : n \in 0..Cardinality(S)} :
        \A j, k \in DOMAIN q : j # k => q[j] # q[k]}

RECURSIVE SumLen(_, _)
SumLen(f, S) ==
    IF S = {} THEN 0
    ELSE LET s == CHOOSE x \in S : TRUE IN Len(f[s]) + SumLen(f, S \ {s})

IsTerminal(s) == terminal_reward[s] # << >>

\* d[k] = v on a dict
DictSet(d, k, v) == (k :> v) @@ d

EmptyDict == << >>

----------------------------------------------------------------------------
\* build_mdp

SelfLoopP(s) == (s :> ProbUnit)

SelfLoopR_Penalised(s) == (s :> ACTION_PENALTY)

SelfLoopR(s) == (s :> 0)

RECURSIVE SetAll(_, _, _)
SetAll(d, K, v) ==
    IF K = {} THEN d
    ELSE LET k == CHOOSE x \in K : TRUE IN SetAll(DictSet(d, k, v), K \ {k}, v)

\* dist for action a of the regular page s
Dist(s, a) ==
    LET out    == Range(links[s])
        others == out \ {a}
    IN  IF Cardinality(out) = 1
        THEN DictSet(DictSet(EmptyDict, a, 90), s, 10)
        ELSE SetAll(DictSet(DictSet(EmptyDict, a, 60), s, 10),
                    others, 30 \div Cardinality(others))

PenaltyR(dist) == [s2 \in DOMAIN dist |-> ACTION_PENALTY]

BuildActions(s) ==
    IF IsTerminal(s) \/ links[s] = << >> THEN <<None>> ELSE links[s]

BuildP(s) ==
    IF IsTerminal(s) \/ links[s] = << >>
    THEN (None :> SelfLoopP(s))
    ELSE [a \in Range(links[s]) |-> Dist(s, a)]

BuildR(s) ==
    IF IsTerminal(s) \/ links[s] = << >>
    THEN (None :> SelfLoopR(s))
    ELSE [a \in Range(links[s]) |-> PenaltyR(Dist(s, a))]

BuildMdp ==
    /\ pc = "build"
    /\ P' = [s \in Pages |-> BuildP(s)]
    /\ R' = [s \in Pages |-> BuildR(s)]
    /\ actions' = [s \in Pages |-> BuildActions(s)]
    /\ pc' = "idle"
    /\ UNCHANGED <<inputs, V, policy, delta, policy_stable, i, Vsweep,
                   old_policy, results>>

\* The caller passes its own reward model: the same key sets, every reward 0.0.
ZeroR == [s \in Pages |-> [a \in DOMAIN P[s] |-> [t \in DOMAIN P[s][a] |-> 0]]]

SupplyRewards ==
    /\ pc = "idle"
    /\ results = << >>
    /\ R # ZeroR
    /\ R' = ZeroR
    /\ UNCHANGED <<inputs, P, actions, pc, V, policy, delta, policy_stable, i,
                   Vsweep, old_policy, results>>

----------------------------------------------------------------------------
\* The Bellman backup shared by both engines

RECURSIVE SumTerms(_, _, _, _)
SumTerms(s, a, Vv, T) ==
    IF T = {} THEN 0
    ELSE LET t == CHOOSE x \in T : TRUE
         IN  P[s][a][t] * (R[s][a][t] * ProbUnit + gamma * Vv[t])
               + SumTerms(s, a, Vv, T \ {t})

Backup(s, a, Vv) == Round(SumTerms(s, a, Vv, DOMAIN P[s][a]), ProbUnit * ProbUnit)

Better_OrEqual(value, max_value) == value >= max_value

Better(value, max_value) == value > max_value

\* the loop over actions[s] from its k-th element: <<max_value, best_action>>
RECURSIVE Best(_, _, _, _, _)
Best(s, Vv, k, max_value, best_action) ==
    IF k > Len(actions[s]) THEN <<max_value, best_action>>
    ELSE LET a     == actions[s][k]
             value == Backup(s, a, Vv)
         IN  IF Better(value, max_value)
             THEN Best(s, Vv, k + 1, value, a)
             ELSE Best(s, Vv, k + 1, max_value, best_action)

Greedy(s, Vv) == Best(s, Vv, 1, NegInf, None)

Converged(d) == d * ThetaUnit < theta

FreshV_Shared == IF V = EmptyDict THEN [s \in Pages |-> 0] ELSE V

FreshV == [s \in Pages |-> 0]

FreshPolicy == EmptyDict

ReadV_Snapshot == Vsweep

\* the V a backup reads
ReadV == V

Result(engine) == [engine |-> engine, V |-> V, policy |-> policy]

----------------------------------------------------------------------------
\* value_iteration

CallVI ==
    /\ pc = "idle"
    /\ Len(results) < MaxCalls
    /\ V' = FreshV
    /\ policy' = FreshPolicy
    /\ delta' = 0
    /\ i' = 1
    /\ Vsweep' = FreshV
    /\ pc' = "vi_sweep"
    /\ UNCHANGED <<inputs, model, policy_stable, old_policy, results>>

VITerminal ==
    /\ pc = "vi_sweep"
    /\ i <= Len(order)
    /\ IsTerminal(order[i])
    /\ V' = [V EXCEPT ![order[i]] = terminal_reward[order[i]][1]]
    /\ policy' = DictSet(policy, order[i], None)
    /\ i' = i + 1
    /\ UNCHANGED <<inputs, model, pc, delta, policy_stable, Vsweep, old_policy,
                   results>>

VIBackup ==
    /\ pc = "vi_sweep"
    /\ i <= Len(order)
    /\ ~IsTerminal(order[i])
    /\ LET s == order[i]
           g == Greedy(s, ReadV)
       IN  /\ delta' = Max(delta, Abs(V[s] - g[1]))
           /\ V' = [V EXCEPT ![s] = g[1]]
           /\ policy' = DictSet(policy, s, g[2])
    /\ i' = i + 1
    /\ UNCHANGED <<inputs, model, pc, policy_stable, Vsweep, old_policy,
                   results>>

VINextSweep ==
    /\ pc = "vi_sweep"
    /\ i > Len(order)
    /\ ~Converged(delta)
    /\ delta' = 0
    /\ i' = 1
    /\ Vsweep' = V
    /\ UNCHANGED <<inputs, model, pc, V, policy, policy_stable, old_policy,
                   results>>

VIReturn ==
    /\ pc = "vi_sweep"
    /\ i > Len(order)
    /\ Converged(delta)
    /\ results' = Append(results, Result("vi"))
    /\ pc' = "idle"
    /\ UNCHANGED <<inputs, model, V, policy, delta, policy_stable, i, Vsweep,
                   old_policy>>

----------------------------------------------------------------------------
\* policy_iteration

CallPI ==
    /\ pc = "idle"
    /\ Len(results) < MaxCalls
    /\ V' = FreshV
    /\ policy' = FreshPolicy
    /\ delta' = 0
    /\ i' = 1
    /\ Vsweep' = FreshV
    /\ pc' = "pi_init"
    /\ UNCHANGED <<inputs, model, policy_stable, old_policy, results>>

\* the first loop: the initial policy, terminal values pinned
PIInit ==
    /\ pc = "pi_init"
    /\ i <= Len(order)
    /\ LET s == order[i]
       IN  IF IsTerminal(s)
           THEN /\ policy' = DictSet(policy, s, None)
                /\ V' = [V EXCEPT ![s] = terminal_reward[s][1]]
           ELSE /\ policy' = DictSet(policy, s, actions[s][1])
                /\ V' = V
    /\ i' = i + 1
    /\ UNCHANGED <<inputs, model, pc, delta, policy_stable, Vsweep, old_policy,
                   results>>

PIStartEval ==
    /\ pc = "pi_init"
    /\ i > Len(order)
    /\ pc' = "pi_eval"
    /\ delta' = 0
    /\ i' = 1
    /\ Vsweep' = V
    /\ UNCHANGED <<inputs, model, V, policy, policy_stable, old_policy, results>>

PIEvalTerminal ==
    /\ pc = "pi_eval"
    /\ i <= Len(order)
    /\ IsTerminal(order[i])
    /\ i' = i + 1
    /\ UNCHANGED <<inputs, model, pc, V, policy, delta, policy_stable, Vsweep,
                   old_policy, results>>

PIEvalBackup ==
    /\ pc = "pi_eval"
    /\ i <= Len(order)
    /\ ~IsTerminal(order[i])
    /\ LET s     == order[i]
           old_v == V[s]
           new_v == Backup(s, policy[s], ReadV)
       IN  /\ V' = [V EXCEPT ![s] = new_v]
           /\ delta' = Max(delta, Abs(old_v - new_v))
    /\ i' = i + 1
    /\ UNCHANGED <<inputs, model, pc, policy, policy_stable, Vsweep, old_policy,
                   results>>

PIEvalNextSweep ==
    /\ pc = "pi_eval"
    /\ i > Len(order)
    /\ ~Converged(delta)
    /\ delta' = 0
    /\ i' = 1
    /\ Vsweep' = V
    /\ UNCHANGED <<inputs, model, pc, V, policy, policy_stable, old_policy,
                   results>>

PIEvalDone ==
    /\ pc = "pi_eval"
    /\ i > Len(order)
    /\ Converged(delta)
    /\ pc' = "pi_improve"
    /\ policy_stable' = TRUE
    /\ i' = 1
    /\ old_policy' = policy
    /\ UNCHANGED <<inputs, model, V, policy, delta, Vsweep, results>>

PIImproveTerminal ==
    /\ pc = "pi_improve"
    /\ i <= Len(order)
    /\ IsTerminal(order[i])
    /\ i' = i + 1
    /\ UNCHANGED <<inputs, model, pc, V, policy, delta, policy_stable, Vsweep,
                   old_policy, results>>

StillStable_NeverCleared(stable, old_action, best_action) == stable

\* policy_stable after the state whose action went from old_action to best_action
StillStable(stable, old_action, best_action) ==
    IF best_action # old_action THEN FALSE ELSE stable

PIImprove ==
    /\ pc = "pi_improve"
    /\ i <= Len(order)
    /\ ~IsTerminal(order[i])
    /\ LET s           == order[i]
           old_action  == policy[s]
           best_action == Greedy(s, V)[2]
       IN  /\ policy' = DictSet(policy, s, best_action)
           /\ policy_stable' = StillStable(policy_stable, old_action, best_action)
    /\ i' = i + 1
    /\ UNCHANGED <<inputs, model, pc, V, delta, Vsweep, old_policy, results>>

PIRepeat ==
    /\ pc = "pi_improve"
    /\ i > Len(order)
    /\ ~policy_stable
    /\ pc' = "pi_eval"
    /\ delta' = 0
    /\ i' = 1
    /\ Vsweep' = V
    /\ UNCHANGED <<inputs, model, V, policy, policy_stable, old_policy, results>>

PIReturn ==
    /\ pc = "pi_improve"
    /\ i > Len(order)
    /\ policy_stable
    /\ results' = Append(results, Result("pi"))
    /\ pc' = "idle"
    /\ UNCHANGED <<inputs, model, V, policy, delta, policy_stable, i, Vsweep,
                   old_policy>>

----------------------------------------------------------------------------

Init ==
    /\ order \in {q \in InjSeqs(Pages) : Len(q) = Cardinality(Pages)}
    /\ links \in {f \in [Pages -> InjSeqs(Pages)] : SumLen(f, Pages) <= MaxLinks}
    /\ terminal_reward \in [Pages -> {<< >>} \cup {<<r>> : r \in RewardValues}]
    /\ gamma \in GammaValues
    /\ theta \in ThetaValues
    /\ P = EmptyDict
    /\ R = EmptyDict
    /\ actions = EmptyDict
    /\ pc = "build"
    /\ V = EmptyDict
    /\ policy = EmptyDict
    /\ delta = 0
    /\ policy_stable = TRUE
    /\ i = 1
    /\ Vsweep = EmptyDict
    /\ old_policy = EmptyDict
    /\ results = << >>

Next ==
    \/ BuildMdp
    \/ SupplyRewards
    \/ CallVI
    \/ VITerminal
    \/ VIBackup
    \/ VINextSweep
    \/ VIReturn
    \/ CallPI
    \/ PIInit
    \/ PIStartEval
    \/ PIEvalTerminal
    \/ PIEvalBackup
    \/ PIEvalNextSweep
    \/ PIEvalDone
    \/ PIImproveTerminal
    \/ PIImprove
    \/ PIRepeat
    \/ PIReturn

Spec == Init /\ [][Next]_vars

\* value_iteration alone, and policy_iteration alone.  The program is one
\* thread that runs whenever it can take a step: weak fairness of the step.
\* main: one call of value_iteration on the model just built
MainCallsVI == results = << >> /\ CallVI

\* a driver that calls policy_iteration once on the model just built
CallPIOnce == results = << >> /\ CallPI

NextVI ==
    \/ BuildMdp
    \/ SupplyRewards
    \/ MainCallsVI
    \/ VITerminal
    \/ VIBackup
    \/ VINextSweep
    \/ VIReturn

FairSpecVI == Init /\ [][NextVI]_vars /\ WF_vars(NextVI)

NextPI ==
    \/ BuildMdp
    \/ SupplyRewards
    \/ CallPIOnce
    \/ PIInit
    \/ PIStartEval
    \/ PIEvalTerminal
    \/ PIEvalBackup
    \/ PIEvalNextSweep
    \/ PIEvalDone
    \/ PIImproveTerminal
    \/ PIImprove
    \/ PIRepeat
    \/ PIReturn

FairSpecPI == Init /\ [][NextPI]_vars /\ WF_vars(NextPI)

----------------------------------------------------------------------------
\* Vocabulary of the properties

RECURSIVE SumDist(_, _)
SumDist(d, T) ==
    IF T = {} THEN 0
    ELSE LET t == CHOOSE x \in T : TRUE IN d[t] + SumDist(d, T \ {t})

Built == pc # "build"

DeadEnd(s) == ~IsTerminal(s) /\ links[s] = << >>

\* the input contract of the solvers
WellFormed ==
    /\ Built
    /\ \A s \in Pages :
         /\ actions[s] # << >>
         /\ \A a \in Range(actions[s]) :
              /\ a \in DOMAIN P[s]
              /\ \A t \in DOMAIN P[s][a] : P[s][a][t] >= 0
              /\ SumDist(P[s][a], DOMAIN P[s][a]) = ProbUnit
              /\ DOMAIN R[s][a] = DOMAIN P[s][a]

GoodParams == gamma > 0 /\ gamma < ProbUnit /\ theta > 0

\* a backup of the non-terminal state order[i] is the next step of the solver
BackupNext ==
    /\ pc \in {"vi_sweep", "pi_eval", "pi_improve"}
    /\ i <= Len(order)
    /\ ~IsTerminal(order[i])

\* the states a backup of s reads the value of
Successors(s) == UNION {DOMAIN P[s][a] : a \in Range(actions[s])}

\* C1: whenever a backup can read V(t) of a terminal state t, V(t) is
\* terminal_reward[t]; and a terminal state's policy entry, once set, is None.
C1_TerminalPinned ==
    /\ BackupNext =>
         \A t \in Successors(order[i]) :
             IsTerminal(t) => V[t] = terminal_reward[t][1]
    /\ \A t \in DOMAIN policy : IsTerminal(t) => policy[t] = None

\* C2: what value_iteration returns for a well-formed model, 0 < gamma < 1 and
\* theta > 0 is an approximate fixed point: |V(s) - max_a Q(s,a)| < 10 * theta
\* at every non-terminal state, V(s) = terminal_reward[s] at every terminal one.
C2_FixedPoint ==
    \A k \in DOMAIN results :
        (results[k].engine = "vi" /\ WellFormed /\ GoodParams) =>
            \A s \in Pages :
                IF IsTerminal(s)
                THEN results[k].V[s] = terminal_reward[s][1]
                ELSE Abs(results[k].V[s] - Greedy(s, results[k].V)[1]) * ThetaUnit
                        < 10 * theta

\* the actions of s whose backed-up value under Vv is the maximum
Maximisers(s, Vv) ==
    {a \in Range(actions[s]) :
        \A b \in Range(actions[s]) : Backup(s, a, Vv) >= Backup(s, b, Vv)}

\* C3: on a well-formed model with the same gamma and theta > 0, the values
\* the two engines return differ by at most 100 * theta plus half a unit of
\* quantisation slack at every state, and the policies agree wherever the
\* optimal action is unique.
C3_CrossEngine ==
    \A j, k \in DOMAIN results :
        (/\ results[j].engine = "vi"
         /\ results[k].engine = "pi"
         /\ WellFormed /\ GoodParams) =>
            \A s \in Pages :
                /\ Abs(results[j].V[s] - results[k].V[s]) * ThetaUnit
                      <= 100 * theta + (ValueUnit \div 2) * ThetaUnit
                /\ (/\ Cardinality(Maximisers(s, results[j].V)) = 1
                    /\ Cardinality(Maximisers(s, results[k].V)) = 1)
                      => results[j].policy[s] = results[k].policy[s]

\* C4: every distribution build_mdp produces has non-negative probabilities
\* that sum to 1.
C4_Distributions ==
    Built =>
        \A s \in Pages : \A a \in Range(actions[s]) :
            /\ \A t \in DOMAIN P[s][a] : P[s][a][t] >= 0
            /\ SumDist(P[s][a], DOMAIN P[s][a]) = ProbUnit

\* C5: a dead end gets the single action None with P = {s: 1.0} and
\* R = {s: 0.0}, and both engines return V(s) = 0 and policy[s] = None for it.
C5_DeadEnd ==
    /\ Built =>
         \A s \in Pages : DeadEnd(s) =>
             /\ actions[s] = <<None>>
             /\ P[s] = (None :> (s :> ProbUnit))
             /\ R[s] = (None :> (s :> 0))
    /\ \A k \in DOMAIN results : gamma < ProbUnit =>
         \A s \in Pages : DeadEnd(s) =>
             /\ results[k].V[s] = 0
             /\ results[k].policy[s] = None

\* both engines have returned on a model with a dead end that a regular page
\* links to
C5_Witness ==
    /\ \E s, u \in Pages : DeadEnd(s) /\ ~IsTerminal(u) /\ s \in Range(links[u])
    /\ \E j, k \in DOMAIN results :
          results[j].engine = "vi" /\ results[k].engine = "pi"

SolverStep == pc \notin {"build", "idle"} \/ pc' \notin {"build", "idle"}

\* C6: no step of a solver changes P, R, actions or terminal_reward, and two
\* calls of the same engine on the same model return the same V and policy.
C6_PureSolve ==
    /\ [][SolverStep => UNCHANGED <<P, R, actions, terminal_reward>>]_vars
    /\ [](\A j, k \in DOMAIN results :
            results[j].engine = results[k].engine =>
                /\ results[j].V = results[k].V
                /\ results[j].policy = results[k].policy)

\* one engine has returned twice on a model with a regular page whose value
\* is not 0
C6_Witness ==
    /\ Len(results) = 2
    /\ results[1].engine = results[2].engine
    /\ \E s \in Pages :
          ~IsTerminal(s) /\ links[s] # << >> /\ results[2].V[s] # 0

\* C7: every call of value_iteration ends.
C7_VITerminates == (pc = "vi_sweep") ~> (pc = "idle")

VIBackupStep ==
    /\ pc = "vi_sweep"
    /\ i <= Len(order)
    /\ ~IsTerminal(order[i])
    /\ i' = i + 1

\* what the previous sweep left: its value for a non-terminal state, the
\* pinned value for a terminal one
PreviousSweepV == [t \in Pages |-> IF IsTerminal(t) THEN V[t] ELSE Vsweep[t]]

Visited(t) == \E k \in 1..(i - 1) : order[k] = t

\* this sweep's value for the states already visited, the previous sweep's for
\* the others
InSweepV == [t \in Pages |-> IF Visited(t) THEN V[t] ELSE Vsweep[t]]

C9_StableReturn ==
    /\ [][(pc = "pi_improve" /\ pc' = "idle") => policy = old_policy]_vars
    /\ [][(pc = "pi_improve" /\ i > Len(order) /\ policy = old_policy)
             => pc' = "idle"]_vars
    /\ (pc = "pi_init" /\ WellFormed /\ GoodParams) ~> (pc = "idle")

\* an improvement pass that changed nothing has ended, after an earlier pass
\* moved some state off its initial action
C9_Witness ==
    /\ pc = "pi_improve"
    /\ i > Len(order)
    /\ policy = old_policy
    /\ \E s \in Pages : ~IsTerminal(s) /\ policy[s] # actions[s][1]

ChoiceStep ==
    /\ pc \in {"vi_sweep", "pi_improve"}
    /\ i <= Len(order)
    /\ ~IsTerminal(order[i])
    /\ i' = i + 1

\* the earliest element of actions[s] whose backed-up value is the maximum
FirstMax(s, Vv) ==
    LET n  == Len(actions[s])
        k0 == CHOOSE k \in 1..n :
                 /\ \A j \in 1..n :
                       Backup(s, actions[s][k], Vv) >= Backup(s, actions[s][j], Vv)
                 /\ \A j \in 1..(k - 1) :
                       Backup(s, actions[s][j], Vv) < Backup(s, actions[s][k], Vv)
    IN  actions[s][k0]

\* C10: the action chosen for a non-terminal state is the earliest element of
\* actions[s] whose backed-up value is the maximum.
C10_FirstMaxWins ==
    [][ChoiceStep => policy'[order[i]] = FirstMax(order[i], V)]_vars

\* an action has just been chosen for a state whose first two actions tie for
\* the maximum
C10_Witness ==
    /\ pc \in {"vi_sweep", "pi_improve"}
    /\ i > 1
    /\ LET s == order[i - 1]
       IN  /\ ~IsTerminal(s)
           /\ Len(actions[s]) >= 2
           /\ Backup(s, actions[s][1], V) = Backup(s, actions[s][2], V)
           /\ \A a \in Range(actions[s]) :
                 Backup(s, a, V) <= Backup(s, actions[s][1], V)
           /\ policy[s] = actions[s][1]

====
